---- MODULE Spec2Model ----
(***************************************************************************)
(* Status evaluation engine of the Safe To Swim dashboard (src/src/status.js*)
(* with the helpers of src/src/modules.js and src/src/data-fetch.js).       *)
(*                                                                          *)
(* Representation of JavaScript values:                                     *)
(*  - a string is a sequence of one-character strings, so that toLowerCase  *)
(*    and includes are computed character by character;                     *)
(*  - a number is a record [k, a, b]: k = "rat" is the rational a/b,        *)
(*    k = "pow2" is 2^(a/b) (the value of Math.exp of a sum of logarithms), *)
(*    k = "nan" is NaN, k = "inf" is Infinity.  Logarithms are kept in units of 1/LogScale of a    *)
(*    binary logarithm; sample values are 0 or powers of two, so that every *)
(*    logarithm the code takes of a sample is an exact integer here;        *)
(*  - a calendar day is its day index since the epoch (toDayIndex).         *)
(***************************************************************************)
EXTENDS Integers, Sequences, FiniteSets, TLC

(***************************************************************************)
(* Bounds of the model                                                      *)
(***************************************************************************)
MaxRecords == 2
MaxCount   == 3

(***************************************************************************)
(* Strings                                                                  *)
(***************************************************************************)
UpperToLower ==
  [A |-> "a", B |-> "b", C |-> "c", D |-> "d", E |-> "e", F |-> "f",
   G |-> "g", H |-> "h", I |-> "i", J |-> "j", K |-> "k", L |-> "l",
   M |-> "m", N |-> "n", O |-> "o", P |-> "p", Q |-> "q", R |-> "r",
   S |-> "s", T |-> "t", U |-> "u", V |-> "v", W |-> "w", X |-> "x",
   Y |-> "y", Z |-> "z"]

\* String.prototype.toLowerCase
toLowerCase(s) ==
  [i \in 1..Len(s) |-> IF s[i] \in DOMAIN UpperToLower THEN UpperToLower[s[i]] ELSE s[i]]

\* String.prototype.includes
includes(s, pat) ==
  \E i \in 1..(Len(s) - Len(pat) + 1) : SubSeq(s, i, i + Len(pat) - 1) = pat

DDPCR == <<"d", "d", "p", "c", "r">>

\* JavaScript null / undefined for string-valued fields
NullStr == <<>>

S_Ecoli        == <<"E", ".", " ", "c", "o", "l", "i">>
S_Enterococcus == <<"E", "n", "t", "e", "r", "o", "c", "o", "c", "c", "u", "s">>

(***************************************************************************)
(* Numbers                                                                  *)
(***************************************************************************)
LogScale == 10000

NaN == [k |-> "nan", a |-> 0, b |-> 1]
PosInfinity == [k |-> "inf", a |-> 0, b |-> 1]
Rat(a, b) == [k |-> "rat", a |-> a, b |-> b]
Pow2(a, b) == [k |-> "pow2", a |-> a, b |-> b]

\* Number.isFinite
IsFinite(x) == x.k \notin {"nan", "inf"}

RECURSIVE Log2(_)
Log2(v) == IF v <= 1 THEN 0 ELSE 1 + Log2(v \div 2)

\* Math.log of a positive sample value, in units of 1/LogScale
MathLog(v) == LogScale * Log2(v)

\* Math.log(1e-12) in the same units: log2(1e-12) = -39.8631...
LogFloor == -398631

\* Math.log(Math.max(x, 1e-12)) for a sample value x
LogClamped(x) == IF x > 0 THEN MathLog(x) ELSE LogFloor

\* x <= t for a number x and an integer threshold t (false when x is NaN or Infinity)
Leq(x, t) ==
  CASE x.k = "rat"  -> x.a <= t * x.b
    [] x.k = "pow2" -> x.a <= Log2(t) * x.b
    [] OTHER        -> FALSE

\* x < t
Lt(x, t) ==
  CASE x.k = "rat"  -> x.a < t * x.b
    [] x.k = "pow2" -> x.a < Log2(t) * x.b
    [] OTHER        -> FALSE

RECURSIVE SumSeq(_)
SumSeq(s) == IF s = <<>> THEN 0 ELSE Head(s) + SumSeq(Tail(s))

RECURSIVE Insert(_, _)
Insert(s, x) ==
  IF s = <<>> THEN <<x>>
  ELSE IF x < Head(s) THEN <<x>> \o s
  ELSE <<Head(s)>> \o Insert(Tail(s), x)

\* Array.prototype.sort((x, y) => x - y)
RECURSIVE SortAsc(_)
SortAsc(s) == IF s = <<>> THEN <<>> ELSE Insert(SortAsc(Tail(s)), Head(s))

\* geomean(values): values is a sequence of finite numbers (integers)
geomean(values) ==
  LET vals == SelectSeq(values, LAMBDA v : v > 0)
      s    == SumSeq([i \in 1..Len(vals) |-> MathLog(vals[i])])
  IN IF Len(vals) = 0 THEN NaN ELSE Pow2(s, Len(vals) * LogScale)

\* quantile(arr, p) for p = pNum/10
quantile(arr, pNum) ==
  LET a   == SortAsc(arr)
      idx == (Len(a) - 1) * pNum
      lo  == idx \div 10
      hi  == (idx + 9) \div 10
      t   == idx - 10 * lo
  IN IF Len(a) = 0 THEN NaN
     ELSE IF lo = hi THEN Rat(a[lo + 1], 1)
     ELSE Rat(a[lo + 1] * (10 - t) + a[hi + 1] * t, 10)

(***************************************************************************)
(* Sample records and configuration                                         *)
(***************************************************************************)
\* SampleDate: a parseable calendar date, null / absent, or an unparseable string
DateOn(d) == [k |-> "day", v |-> d]
NullDate  == [k |-> "null", v |-> 0]
BadDate   == [k |-> "bad", v |-> 0]

\* Result: a number, null, or undefined / a non-numeric string
Num(v)      == [k |-> "num", v |-> v]
NullResult  == [k |-> "null", v |-> 0]
UndefResult == [k |-> "undef", v |-> 0]

\* unary plus applied to r.Result: +null is 0, +undefined is NaN
ToNumber(res) ==
  CASE res.k = "num"  -> Rat(res.v, 1)
    [] res.k = "null" -> Rat(0, 1)
    [] OTHER          -> NaN

\* The status catalog and the rule sets of data/criteria.json
StatusCatalog ==
  [closure         |-> [name |-> "Closure"],
   not_enough_data |-> [name |-> "Not enough data"],
   low_risk        |-> [name |-> "Low risk"],
   caution         |-> [name |-> "Use caution"]]

RuleSet(bacteria, minSamples, gmMax, p90Max) ==
  [bacteria |-> bacteria,
   low_risk |-> [min_samples_six_week |-> minSamples,
                 six_week_geomean |-> [max |-> gmMax],
                 p90_30day |-> [max |-> p90Max]],
   else_status |-> "caution"]

\* a property that an object does not carry reads as undefined
Has(obj, field) == field \in DOMAIN obj

\* the object {}
EmptyObject == [f \in {} |-> 0]

\* a rule set that lacks its low_risk thresholds
RuleSetNoLowRisk(bacteria) == [bacteria |-> bacteria, else_status |-> "caution"]

\* a rule set that lacks its else status
RuleSetNoElse(bacteria, minSamples, gmMax, p90Max) ==
  [bacteria |-> bacteria,
   low_risk |-> [min_samples_six_week |-> minSamples,
                 six_week_geomean |-> [max |-> gmMax],
                 p90_30day |-> [max |-> p90Max]]]

\* a complete configuration, and one whose rule sets are both incomplete
CriteriaSpace ==
  { [statuses |-> StatusCatalog,
     rules |-> [waterbody_types |->
                  [saltwater  |-> RuleSet(S_Enterococcus, 2, 4, 16),
                   freshwater |-> RuleSet(S_Ecoli, 1, 4, 4)]]],
    [statuses |-> StatusCatalog,
     rules |-> [waterbody_types |->
                  [saltwater  |-> RuleSetNoLowRisk(S_Enterococcus),
                   freshwater |-> RuleSetNoElse(S_Ecoli, 1, 4, 4)]]] }

SampleRecord(date, analyte, result, method, closure) ==
  [SampleDate |-> date, Analyte |-> analyte, Result |-> result,
   MethodName |-> method, manualClosureFlag |-> closure]

\* Date.parse(r.SampleDate) followed by toDayIndex; NaN when the date does not parse
ParseDay(date) == IF date.k = "day" THEN Rat(date.v, 1) ELSE NaN

\* toDate(d): new Date(null) is the epoch, new Date(<unparseable>) is an Invalid Date
toDate(date) ==
  CASE date.k = "day"  -> Rat(date.v, 1)
    [] date.k = "null" -> Rat(0, 1)
    [] OTHER           -> NaN

(***************************************************************************)
(* computeWindowMetrics                                                     *)
(***************************************************************************)
\* isValid(r) with the method name compared without lower-casing it
isValid_caseSensitive(r, indicatorAnalyte) ==
  /\ ~includes(r.MethodName, DDPCR)
  /\ ~(indicatorAnalyte # NullStr /\ r.Analyte # indicatorAnalyte)

\* isValid(r) of computeWindowMetrics; indicatorAnalyte = NullStr stands for null
isValid(r, indicatorAnalyte) ==
  LET method == toLowerCase(r.MethodName)
  IN /\ ~includes(method, DDPCR)
     /\ ~(indicatorAnalyte # NullStr /\ r.Analyte # indicatorAnalyte)

\* inLast(r, days) of computeWindowMetrics
inLast(r, asOf, days) ==
  LET dt == toDate(r.SampleDate)
  IN /\ IsFinite(dt)
     /\ dt.a <= asOf
     /\ (asOf - dt.a) <= days

filterWindow(records, asOf, indicatorAnalyte, days) ==
  SelectSeq(records, LAMBDA r : isValid(r, indicatorAnalyte) /\ inLast(r, asOf, days))

\* records.map(r => +r.Result).filter(Number.isFinite), as integers
FiniteResults(recs) ==
  LET nums == [i \in 1..Len(recs) |-> ToNumber(recs[i].Result)]
      fin  == SelectSeq(nums, IsFinite)
  IN [i \in 1..Len(fin) |-> fin[i].a]

computeWindowMetrics(records, asOf, indicatorAnalyte) ==
  LET sixW       == filterWindow(records, asOf, indicatorAnalyte, 42)
      sixWVals   == FiniteResults(sixW)
      thirtyD    == filterWindow(records, asOf, indicatorAnalyte, 30)
      thirtyVals == FiniteResults(thirtyD)
  IN [sampleCount6W     |-> Rat(Len(sixWVals), 1),
      geoMean6W         |-> geomean(sixWVals),
      p90_30d           |-> quantile(thirtyVals, 9),
      sampleCount30D    |-> Rat(Len(thirtyVals), 1),
      manualClosureFlag |-> \E i \in 1..Len(sixW) : sixW[i].manualClosureFlag = TRUE]

(***************************************************************************)
(* evaluateStatusFromMetrics                                                *)
(***************************************************************************)
withReasons(status, reasons, metrics) ==
  [name |-> status.name, _reasons |-> reasons, _metrics |-> metrics]

\* the value a call takes when it throws a TypeError
Thrown == [throws |-> "TypeError"]
Threw(result) == Has(result, "throws")

\* the properties of {...undefined}: a status object without a name
NoStatus == [name |-> ""]

\* the sufficiency gate without the Number.isFinite test
insufficientSamples_noFiniteTest(metrics, low_risk) ==
  Has(low_risk, "min_samples_six_week")
    /\ Lt(metrics.sampleCount6W, low_risk.min_samples_six_week)

\* the sufficiency gate with the minimum off by one
insufficientSamples_offByOne(metrics, low_risk) ==
  \/ ~IsFinite(metrics.sampleCount6W)
  \/ /\ Has(low_risk, "min_samples_six_week")
     /\ Lt(metrics.sampleCount6W, low_risk.min_samples_six_week - 1)

\* the six-week sufficiency gate (status.js line 164); a comparison with an undefined
\* minimum is false
insufficientSamples(metrics, low_risk) ==
  \/ ~IsFinite(metrics.sampleCount6W)
  \/ /\ Has(low_risk, "min_samples_six_week")
     /\ Lt(metrics.sampleCount6W, low_risk.min_samples_six_week)

\* the threshold comparison with < in place of <=
withinThreshold_strict(x, max) == Lt(x, max)

\* the threshold comparison of lines 180 and 181
withinThreshold(x, max) == Leq(x, max)

\* lines 179-191, reached with finite metrics; reading .max of an undefined threshold
\* object throws, and S[undefined] is undefined
evaluateThresholds(metrics, low_risk, typeRules, S) ==
  IF ~Has(low_risk, "six_week_geomean") \/ ~Has(low_risk, "p90_30day")
    THEN Thrown
    ELSE
      LET okSixW == withinThreshold(metrics.geoMean6W, low_risk.six_week_geomean.max)
          okP90  == withinThreshold(metrics.p90_30d, low_risk.p90_30day.max)
      IN IF okSixW /\ okP90
           THEN withReasons(S.low_risk, <<"Pass geomean", "Pass single sample">>, metrics)
           ELSE withReasons(IF Has(typeRules, "else_status")
                              THEN S[typeRules.else_status] ELSE NoStatus,
                            (IF ~okSixW THEN <<"Fail geomean">> ELSE <<>>)
                              \o (IF ~okP90 THEN <<"Fail single sample">> ELSE <<>>),
                            metrics)

\* the value returned, or Thrown: destructuring typeRules.low_risk throws when the rule
\* set has no low_risk (lines 147-151)
evaluateStatusFromMetrics(metrics, typeRules, crit) ==
  IF ~Has(typeRules, "low_risk") THEN Thrown
  ELSE IF metrics.manualClosureFlag
    THEN withReasons(crit.statuses.closure, <<"Manual closure">>, metrics)
  ELSE IF insufficientSamples(metrics, typeRules.low_risk)
    THEN withReasons(crit.statuses.not_enough_data, <<"Insufficient samples">>, metrics)
  ELSE IF ~IsFinite(metrics.geoMean6W)
    THEN withReasons(crit.statuses.not_enough_data, <<"Invalid geomean (6w)">>, metrics)
  ELSE IF ~IsFinite(metrics.p90_30d)
    THEN withReasons(crit.statuses.not_enough_data, <<"Invalid p90 (30d)">>, metrics)
  ELSE evaluateThresholds(metrics, typeRules.low_risk, typeRules, crit.statuses)

(***************************************************************************)
(* computeAllStatuses, for one station of recordsByStation                  *)
(***************************************************************************)
\* the rule set of the water-body type, {} when the configuration has none (line 210)
WaterbodyRules(crit, isSalt) ==
  LET type == IF isSalt THEN "saltwater" ELSE "freshwater"
  IN IF Has(crit.rules.waterbody_types, type)
       THEN crit.rules.waterbody_types[type] ELSE EmptyObject

\* the entry stored for the station, or Thrown when the evaluator throws
computeAllStatuses(records, asOf, crit, saltFlag) ==
  LET isSalt           == saltFlag = TRUE
      typeRules        == WaterbodyRules(crit, isSalt)
      indicatorAnalyte == IF Has(typeRules, "bacteria") THEN typeRules.bacteria
                          ELSE IF isSalt THEN S_Enterococcus ELSE S_Ecoli
      metrics          == computeWindowMetrics(records, asOf, indicatorAnalyte)
  IN evaluateStatusFromMetrics(metrics, typeRules, crit)

(***************************************************************************)
(* Analyte and rule selection of the history path                           *)
(***************************************************************************)
DEFAULT_ANALYTE_MAP ==
  [saltwater  |-> << S_Enterococcus,
                     <<"E", "n", "t", "e", "r", "o">>,
                     <<"E", "N", "T">> >>,
   freshwater |-> << S_Ecoli,
                     <<"E", " ", "C", "o", "l", "i">>,
                     <<"E", ".", "C", "o", "l", "i">>,
                     <<"E", "C">> >>]

\* the criteria carry no analyte preferences, so the defaults apply
analytePrefsFromCriteria(crit) == DEFAULT_ANALYTE_MAP

\* the fallbacks of selectTypeRules: a missing low_risk becomes that of rules.default
\* or {}, a missing else status becomes rules.default.status or stays undefined
selectTypeRules(crit, isSaltwater) ==
  LET wb   == WaterbodyRules(crit, isSaltwater)
      dflt == IF Has(crit.rules, "default") THEN crit.rules.default ELSE EmptyObject
      low  == IF Has(wb, "low_risk") THEN wb.low_risk
              ELSE IF Has(dflt, "low_risk") THEN dflt.low_risk
              ELSE EmptyObject
  IN IF Has(wb, "else_status") THEN [low_risk |-> low, else_status |-> wb.else_status]
     ELSE IF Has(dflt, "status") THEN [low_risk |-> low, else_status |-> dflt.status]
     ELSE [low_risk |-> low]

\* index of the first element of wantedList whose lower-case form is available, 0 if none
FirstWanted(wantedList, availSet) ==
  LET hits == {i \in 1..Len(wantedList) : toLowerCase(wantedList[i]) \in availSet}
  IN IF hits = {} THEN 0 ELSE CHOOSE i \in hits : \A k \in hits : i <= k

pickAnalyteForEnvironment(stationRecord, isSaltwater, crit) ==
  LET prefs      == analytePrefsFromCriteria(crit)
      wantedList == IF isSaltwater THEN prefs.saltwater ELSE prefs.freshwater
      all        == [i \in 1..Len(stationRecord) |-> stationRecord[i].Analyte]
      available  == SelectSeq(all, LAMBDA a : a # NullStr)
      availSet   == {toLowerCase(available[i]) : i \in 1..Len(available)}
      w          == FirstWanted(wantedList, availSet)
      count(a)   == Cardinality({i \in 1..Len(available) : available[i] = a})
      \* stable sort by descending count: the earliest analyte among the most frequent
      best       == CHOOSE i \in 1..Len(available) :
                      /\ \A k \in 1..Len(available) : count(available[k]) <= count(available[i])
                      /\ \A k \in 1..(i - 1) : count(available[k]) < count(available[i])
  IN IF w # 0 THEN wantedList[w]
     ELSE IF Len(available) > 0 THEN available[best]
     ELSE NullStr

(***************************************************************************)
(* Utilities of the history path                                            *)
(***************************************************************************)
W6   == 42
W30  == 30
BINS == 96

Max(a, b) == IF a >= b THEN a ELSE b
Min(a, b) == IF a <= b THEN a ELSE b

\* the loop of cumsum from index lo to hi, entered with out[lo - 1] = base; the range is
\* split in halves so that the evaluation depth stays logarithmic
RECURSIVE CumsumRange(_, _, _, _)
CumsumRange(src, lo, hi, base) ==
  IF lo > hi THEN <<>>
  ELSE IF lo = hi THEN <<base + src[lo]>>
  ELSE LET mid   == (lo + hi) \div 2
           left  == CumsumRange(src, lo, mid, base)
           right == CumsumRange(src, mid + 1, hi, left[Len(left)])
       IN left \o right

\* cumsum(src): out has length n + 1, out[0] = 0 (index k of the code is k + 1 here)
cumsum(src) == <<0>> \o CumsumRange(src, 1, Len(src), 0)

\* windowSum(prefix, i0, i1): inclusive window on [i0, i1], with clamping
windowSum(prefix, i0, i1) ==
  LET a == Max(0, Min(i0, Len(prefix) - 2))
      b == Max(0, Min(i1 + 1, Len(prefix) - 1))
  IN IF b <= a THEN 0 ELSE prefix[b + 1] - prefix[a + 1]

\* localeCompare order of the reason strings the evaluator produces
ReasonOrder ==
  << "Fail geomean", "Fail single sample", "Insufficient samples",
     "Invalid geomean (6w)", "Invalid p90 (30d)", "Manual closure",
     "Pass geomean", "Pass single sample" >>

ReasonRank(s) == CHOOSE i \in 1..Len(ReasonOrder) : ReasonOrder[i] = s

RECURSIVE InsertReason(_, _)
InsertReason(s, x) ==
  IF s = <<>> THEN <<x>>
  ELSE IF ReasonRank(x) < ReasonRank(Head(s)) THEN <<x>> \o s
  ELSE <<Head(s)>> \o InsertReason(Tail(s), x)

RECURSIVE SortReasons(_)
SortReasons(s) == IF s = <<>> THEN <<>> ELSE InsertReason(SortReasons(Tail(s)), Head(s))

\* canonicalizeReasons(arr): the sorted reasons; joining with "|" is injective on them
canonicalizeReasons(arr) == SortReasons(SelectSeq(arr, LAMBDA r : r # ""))

(***************************************************************************)
(* buildStatusSeriesForStation                                              *)
(***************************************************************************)
\* lines 271-284: the culture samples of the chosen analyte, as {day, val, method}.
\* A record's ts, when present, is Date.parse(SampleDate) (data-fetch.js normalizeRecord).
SeriesSamples(stationRecord, analyte) ==
  LET kept == SelectSeq(stationRecord, LAMBDA r :
                /\ r.Analyte = analyte
                /\ r.Result.k = "num"
                /\ r.SampleDate.k # "null")
      raw0 == [i \in 1..Len(kept) |->
                [day    |-> ParseDay(kept[i].SampleDate),
                 val    |-> ToNumber(kept[i].Result),
                 method |-> toLowerCase(kept[i].MethodName)]]
      raw  == SelectSeq(raw0, LAMBDA x : IsFinite(x.day) /\ IsFinite(x.val))
      cult == SelectSeq(raw, LAMBDA x : ~includes(x.method, DDPCR))
  IN [i \in 1..Len(cult) |-> [day |-> cult[i].day.a, val |-> cult[i].val.a]]

\* toBin(x) for the logarithmic bins over [l0, l1] = [log vmin, log vmax];
\* NaN when l1 = l0 (0/0)
toBin(x, l0, l1) ==
  LET lx == LogClamped(x)
  IN IF l1 = l0 THEN NaN
     ELSE Rat(Max(0, Min(BINS - 1, ((lx - l0) * BINS) \div (l1 - l0))), 1)

\* the six-week metrics over a window that starts W6 days back
metrics6wAtIndex_window43(P_count, P_poscnt, P_logsum, j) ==
  LET j0            == j - W6
      sampleCount6W == windowSum(P_count, j0, j)
      posCnt6W      == windowSum(P_poscnt, j0, j)
      logSum6W      == windowSum(P_logsum, j0, j)
  IN [sampleCount6W |-> Rat(sampleCount6W, 1),
      geoMean6W     |-> IF posCnt6W > 0 THEN Pow2(logSum6W, posCnt6W * LogScale) ELSE NaN]

\* metrics6wAtIndex(j)
metrics6wAtIndex(P_count, P_poscnt, P_logsum, j) ==
  LET j0            == j - (W6 - 1)
      sampleCount6W == windowSum(P_count, j0, j)
      posCnt6W      == windowSum(P_poscnt, j0, j)
      logSum6W      == windowSum(P_logsum, j0, j)
  IN [sampleCount6W |-> Rat(sampleCount6W, 1),
      geoMean6W     |-> IF posCnt6W > 0 THEN Pow2(logSum6W, posCnt6W * LogScale) ELSE NaN]

\* the accumulation loop of p90_30d_atIndex over the bins lo..hi, entered with
\* st = [acc, b, done]; done records the break.  The range is split in halves so that
\* the evaluation depth stays logarithmic.
RECURSIVE P90Loop(_, _, _, _, _, _, _)
P90Loop(Pbin, j0, j, total, lo, hi, st) ==
  IF st.done \/ lo > hi THEN st
  ELSE IF lo = hi
    THEN LET acc == st.acc + windowSum(Pbin[lo + 1], j0, j)
         IN IF 10 * acc >= 9 * total
              THEN [acc |-> acc, b |-> lo, done |-> TRUE]
              ELSE [acc |-> acc, b |-> lo + 1, done |-> FALSE]
  ELSE LET mid == (lo + hi) \div 2
       IN P90Loop(Pbin, j0, j, total, mid + 1, hi,
                  P90Loop(Pbin, j0, j, total, lo, mid, st))

\* the 30-day percentile over a window that starts W30 days back
p90_30d_atIndex_window31(P_count, Pbin, l0, l1, j) ==
  LET j0    == j - W30
      total == windowSum(P_count, j0, j)
      b     == P90Loop(Pbin, j0, j, total, 0, BINS - 1,
                       [acc |-> 0, b |-> 0, done |-> FALSE]).b
  IN IF total <= 0 THEN NaN
     ELSE Pow2(l0 * 2 * BINS + (2 * b + 1) * (l1 - l0), 2 * BINS * LogScale)

\* p90_30d_atIndex(j)
p90_30d_atIndex(P_count, Pbin, l0, l1, j) ==
  LET j0    == j - (W30 - 1)
      total == windowSum(P_count, j0, j)
      b     == P90Loop(Pbin, j0, j, total, 0, BINS - 1,
                       [acc |-> 0, b |-> 0, done |-> FALSE]).b
  IN IF total <= 0 THEN NaN
     ELSE Pow2(l0 * 2 * BINS + (2 * b + 1) * (l1 - l0), 2 * BINS * LogScale)

\* the sweep without its break
SweepStops_never(day, todayIdx) == FALSE

\* the sweep stops at the first day after today (line 404)
SweepStops(day, todayIdx) == day > todayIdx

\* a segment emitted for every day
EmitsSegment_always(out, key, prevKey) == TRUE

\* a segment emitted for the first day only
EmitsSegment_firstOnly(out, key, prevKey) == out = <<>>

\* a segment emitted at a change of the status name, whatever the reasons
EmitsSegment_byName(out, key, prevKey) == out = <<>> \/ key[1] # prevKey[1]

\* a segment is emitted for the first day and at every change of key (line 427)
EmitsSegment(out, key, prevKey) == out = <<>> \/ key # prevKey

\* lines 406-414: the metrics of day index j
DayMetrics(ctx, j) ==
  LET m6 == metrics6wAtIndex(ctx.P_count, ctx.P_poscnt, ctx.P_logsum, j)
  IN [sampleCount6W     |-> m6.sampleCount6W,
      geoMean6W         |-> m6.geoMean6W,
      p90_30d           |-> p90_30d_atIndex(ctx.P_count, ctx.Pbin, ctx.l0, ctx.l1, j),
      manualClosureFlag |-> FALSE]

\* lines 423-438: the comparison key of the day's status and the emission of a segment
EmitDay(st, day, metrics, status) ==
  LET reasons    == status._reasons
      reasonsKey == canonicalizeReasons(reasons)
      key        == <<status.name, reasonsKey>>
  IN IF EmitsSegment(st.out, key, st.prevKey)
       THEN [st EXCEPT !.out = Append(st.out, [date |-> day, status_name |-> status.name,
                                               metrics |-> metrics, reasons |-> reasons,
                                               reasonsKey |-> reasonsKey]),
                       !.prevKey = key]
       ELSE st

\* the day's status is emitted, or the sweep ends when the evaluator threw
EmitOrThrow(st, day, metrics, status) ==
  IF Threw(status) THEN [st EXCEPT !.done = TRUE, !.thrown = TRUE]
  ELSE EmitDay(st, day, metrics, status)

\* lines 416-421: the day's metrics are evaluated with the rule set of the station
EvaluateDay(ctx, day, metrics, st) ==
  EmitOrThrow(st, day, metrics, evaluateStatusFromMetrics(metrics, ctx.typeRules, ctx.crit))

\* one iteration of the loop of lines 402-439, for day index j; st = [out, prevKey, done,
\* thrown], done records the break and thrown an exception of the evaluator
SweepDay(ctx, j, st) ==
  IF SweepStops(j + ctx.startDay, ctx.todayIdx) THEN [st EXCEPT !.done = TRUE]
  ELSE EvaluateDay(ctx, j + ctx.startDay, DayMetrics(ctx, j), st)

\* the loop of lines 402-439 over the day indexes lo..hi, split in halves so that the
\* evaluation depth stays logarithmic
RECURSIVE Sweep(_, _, _, _)
Sweep(ctx, lo, hi, st) ==
  IF st.done \/ lo > hi THEN st
  ELSE IF lo = hi THEN SweepDay(ctx, lo, st)
  ELSE LET mid == (lo + hi) \div 2
       IN Sweep(ctx, mid + 1, hi, Sweep(ctx, lo, mid, st))

\* H and Pbin = H.map(cumsum), lines 368-373: one prefix array per bin.  A bin that
\* receives no sample has an all-zero row, whose prefix sums are all zero.
BuildPbin(samples, binOf, offset, N) ==
  LET zero   == [k \in 1..(N + 1) |-> 0] \o <<>>
      row(b) == [j \in 1..N |->
                  Cardinality({i \in 1..Len(samples) :
                                 binOf[i] = b /\ samples[i].day + offset = j - 1})]
  IN [b1 \in 1..BINS |->
        IF \E i \in 1..Len(samples) : binOf[i] = b1 - 1
          THEN cumsum(row(b1 - 1))
          ELSE zero] \o <<>>

\* lines 303-312: the day range of the sweep, from 41 days before the first sample to
\* the later of the last sample and today
DayRange(samples, todayIdx) ==
  LET idx      == 1..Len(samples)
      minDay   == CHOOSE d \in {samples[i].day : i \in idx} : \A i \in idx : d <= samples[i].day
      maxDay   == CHOOSE d \in {samples[i].day : i \in idx} : \A i \in idx : d >= samples[i].day
      startDay == minDay - (W6 - 1)
      endDay   == Max(maxDay, todayIdx)
  IN [startDay |-> startDay, N |-> endDay - startDay + 1, offset |-> -startDay]

\* lines 315-328: the per-day arrays
countPerDay(samples, offset, N) ==
  [j \in 1..N |-> Cardinality({i \in 1..Len(samples) : samples[i].day + offset = j - 1})]

posCountPerDay(samples, offset, N) ==
  [j \in 1..N |-> Cardinality({i \in 1..Len(samples) :
                                 samples[i].day + offset = j - 1 /\ samples[i].val > 0})]

logSumPerDay(samples, offset, N) ==
  [j \in 1..N |-> SumSeq([i \in 1..Len(samples) |->
                            IF samples[i].day + offset = j - 1 /\ samples[i].val > 0
                              THEN MathLog(samples[i].val) ELSE 0])]

\* lines 320-328, 349-352 and 356-358: [l0, l1] = [log vmin, log vmax] over all samples
\* of the series; a degenerate range becomes [0.5 * base, 1.5 * base] with base = vmin;
\* log2(0.5) = -1, log2(1.5) = 0.58496, and a base of 0 leaves vmin = vmax = 0
LogRange(samples) ==
  LET idx   == 1..Len(samples)
      vmin0 == CHOOSE v \in {samples[i].val : i \in idx} : \A i \in idx : v <= samples[i].val
      vmax0 == CHOOSE v \in {samples[i].val : i \in idx} : \A i \in idx : v >= samples[i].val
  IN [l0 |-> IF vmin0 = vmax0
               THEN (IF vmin0 > 0 THEN MathLog(vmin0) - LogScale ELSE LogFloor)
               ELSE LogClamped(vmin0),
      l1 |-> IF vmin0 = vmax0
               THEN (IF vmin0 > 0 THEN MathLog(vmin0) + 5850 ELSE LogFloor)
               ELSE LogClamped(vmax0)]

\* the arrays and settings the sweep reads (lines 331-333, 368-373)
SweepContext(samples, rng, lr, binOf, typeRules, crit, todayIdx) ==
  [P_count  |-> cumsum(countPerDay(samples, rng.offset, rng.N)),
   P_poscnt |-> cumsum(posCountPerDay(samples, rng.offset, rng.N)),
   P_logsum |-> cumsum(logSumPerDay(samples, rng.offset, rng.N)),
   Pbin     |-> BuildPbin(samples, binOf, rng.offset, rng.N),
   l0 |-> lr.l0, l1 |-> lr.l1, startDay |-> rng.startDay, N |-> rng.N,
   todayIdx |-> todayIdx, typeRules |-> typeRules, crit |-> crit]

\* lines 441-447 for the state sw the sweep ended in: an exception of the evaluator
\* leaves the call; otherwise the series ends at today, and out[out.length - 1].date
\* throws on an empty out
FinishSeries(sw, samples, analyte, todayIdx) ==
  IF sw.thrown
    THEN [state |-> "TypeError", at |-> "evaluateStatusFromMetrics",
          samples |-> samples, analyte |-> analyte]
  ELSE IF sw.out = <<>>
    THEN [state |-> "TypeError", at |-> "out[out.length - 1]",
          samples |-> samples, analyte |-> analyte]
  ELSE [state |-> "ok",
        out |-> IF sw.out[Len(sw.out)].date # todayIdx
                  THEN Append(sw.out, [sw.out[Len(sw.out)] EXCEPT !.date = todayIdx])
                  ELSE sw.out,
        swept |-> Len(sw.out), samples |-> samples, analyte |-> analyte]

\* lines 303-447 for a non-empty sample list; H[toBin(s.val)][j] += 1 throws when the
\* bin index is NaN
SeriesOfSamples(samples, analyte, typeRules, crit, todayIdx, rng, lr) ==
  LET bins  == [i \in 1..Len(samples) |-> toBin(samples[i].val, lr.l0, lr.l1)]
      binOf == [i \in 1..Len(samples) |-> bins[i].a]
  IN IF \E i \in 1..Len(samples) : ~IsFinite(bins[i])
       THEN [state |-> "TypeError", at |-> "H[toBin(val)]",
             samples |-> samples, analyte |-> analyte]
       ELSE FinishSeries(
              Sweep(SweepContext(samples, rng, lr, binOf, typeRules, crit, todayIdx),
                    0, rng.N - 1,
                    [out |-> <<>>, prevKey |-> <<>>, done |-> FALSE, thrown |-> FALSE]),
              samples, analyte, todayIdx)

\* the single entry with the reason of the sufficiency gate attached
NoDataSeries_withReason(crit, todayIdx) ==
  << [date |-> todayIdx,
      status_name |-> crit.statuses.not_enough_data.name,
      metrics |-> [sampleCount6W |-> Rat(0, 1), geoMean6W |-> NaN,
                   p90_30d |-> NaN, manualClosureFlag |-> FALSE],
      reasons |-> <<"Insufficient samples">>,
      reasonsKey |-> <<"Insufficient samples">>] >>

\* lines 290-299: the series returned when there is no analyte or no sample
NoDataSeries(crit, todayIdx) ==
  << [date |-> todayIdx,
      status_name |-> crit.statuses.not_enough_data.name,
      metrics |-> [sampleCount6W |-> Rat(0, 1), geoMean6W |-> NaN,
                   p90_30d |-> NaN, manualClosureFlag |-> FALSE],
      reasons |-> <<>>, reasonsKey |-> <<>>] >>

\* the result is [state |-> "ok", out |-> the series, ...] or, when the call throws,
\* [state |-> "TypeError", at |-> the expression that threw]; swept, samples and analyte
\* expose the locals of the call
buildStatusSeriesForStation(stationRecord, crit, isSaltwater, todayIdx) ==
  LET analyte   == pickAnalyteForEnvironment(stationRecord, isSaltwater, crit)
      typeRules == selectTypeRules(crit, isSaltwater)
      samples   == SeriesSamples(stationRecord, analyte)
  IN IF analyte = NullStr \/ Len(samples) = 0
       THEN [state |-> "ok", out |-> NoDataSeries(crit, todayIdx),
             swept |-> 0, samples |-> samples, analyte |-> analyte]
       ELSE SeriesOfSamples(samples, analyte, typeRules, crit, todayIdx,
                            DayRange(samples, todayIdx), LogRange(samples))

(***************************************************************************)
(* stationRecordFetch of data-fetch.js, for one station, scope and analyte  *)
(* list: the cache keys are the one of the "all" preset and the one of the  *)
(* "window" preset                                                          *)
(***************************************************************************)
MaxFetchCalls == 3
FetchCallIds  == 1..MaxFetchCalls

\* allKey and winKey (lines 278-279), and cacheKey (line 280)
FetchKeys == {"ALL", "WIN"}
CacheKey(timePreset) == IF timePreset = "all" THEN "ALL" ELSE "WIN"

\* an entry of _inflight: none, the promise p of a network fetch (line 336), or the
\* promise that .then() derives from the fetch of the "all" key (line 296)
NoEntry == [kind |-> "none", state |-> "none"]
FetchPromise == [kind |-> "fetch", state |-> "pending"]
ThenPromise(state) == [kind |-> "then", state |-> state]

NoQueries == [started |-> 0, failed |-> 0, pending |-> 0]

IdleFetchCall == [pc |-> "idle", timePreset |-> "", outcome |-> ""]

\* _cache and _inflight are empty when the module is loaded (lines 234-235)
FetcherIdle ==
  [cache    |-> {},
   inflight |-> [k \in FetchKeys |-> NoEntry],
   queries  |-> [k \in FetchKeys |-> NoQueries],
   calls    |-> [i \in FetchCallIds |-> IdleFetchCall]]

\* the call returns, with rows or with a rejection
Returned(timePreset, outcome) == [pc |-> "done", timePreset |-> timePreset, outcome |-> outcome]
Awaiting(pc, timePreset) == [pc |-> pc, timePreset |-> timePreset, outcome |-> ""]

\* what a caller gets from a promise that is settled already
OutcomeOf(state) == IF state = "fulfilled" THEN "rows" ELSE "error"

\* a network query is sent for the key
QuerySent(queries, key) ==
  [queries EXCEPT ![key].started = @ + 1, ![key].pending = @ + 1]

\* a network query of the key has been answered
QueryAnswered(queries, key, ok) ==
  [queries EXCEPT ![key].pending = @ - 1,
                  ![key].failed = IF ok THEN @ ELSE @ + 1]

\* the piggyback path (lines 295-303) sets _inflight[winKey] and never deletes it: the
\* entry stays with the settled promise
PiggybackSettled(state) == ThenPromise(state)

\* the synchronous part of stationRecordFetch for call i, lines 283-359 up to the
\* first await.  Every request has the same cutoff, so no longer window is cached
\* and findSupersetWindowKey (path B) returns null.  Path (C), lines 317-332, awaits
\* the fetch of the older slice without an entry in _inflight.
stationRecordFetch(f, i, timePreset) ==
  IF CacheKey(timePreset) \in f.cache
    THEN [f EXCEPT !.calls[i] = Returned(timePreset, "rows")]
  ELSE IF f.inflight[CacheKey(timePreset)] # NoEntry
    THEN IF f.inflight[CacheKey(timePreset)].state = "pending"
           THEN [f EXCEPT !.calls[i] = Awaiting("joined", timePreset)]
           ELSE [f EXCEPT !.calls[i] =
                   Returned(timePreset, OutcomeOf(f.inflight[CacheKey(timePreset)].state))]
  ELSE IF timePreset = "window" /\ "ALL" \in f.cache
    THEN [f EXCEPT !.cache = @ \cup {"WIN"}, !.calls[i] = Returned(timePreset, "rows")]
  ELSE IF timePreset = "window" /\ f.inflight["ALL"] # NoEntry
    THEN [f EXCEPT !.inflight["WIN"] = ThenPromise("pending"),
                   !.calls[i] = Awaiting("piggyback", timePreset)]
  ELSE IF timePreset = "all" /\ "WIN" \in f.cache
    THEN [f EXCEPT !.queries = QuerySent(@, "ALL"),
                   !.calls[i] = Awaiting("awaitOlder", timePreset)]
  ELSE [f EXCEPT !.queries = QuerySent(@, CacheKey(timePreset)),
                 !.inflight[CacheKey(timePreset)] = FetchPromise,
                 !.calls[i] = Awaiting("awaitFetch", timePreset)]

\* the keys the body of p writes to _cache (lines 344-350)
CachedByFetch(cache, key) ==
  cache \cup {key} \cup (IF key = "ALL" THEN {"WIN"} ELSE {})

\* the entry of a key after the network fetch of key settled: the finally of line 358
\* deletes the entry of key; the promise derived from the "all" fetch settles with it
EntryAfterSettle(inflight, k, key, state) ==
  IF k = key THEN NoEntry
  ELSE IF key = "ALL" /\ inflight[k].kind = "then" /\ inflight[k].state = "pending"
    THEN PiggybackSettled(state)
  ELSE inflight[k]

\* call c waits for the promise of the network fetch of key, directly or through
\* the derived promise
WaitsFor(inflight, c, key) ==
  \/ c.pc \in {"awaitFetch", "joined"} /\ CacheKey(c.timePreset) = key
  \/ /\ key = "ALL"
     /\ c.pc \in {"piggyback", "joined"}
     /\ CacheKey(c.timePreset) = "WIN"
     /\ inflight["WIN"].kind = "then"

\* the network fetch of key settles: the body of p (lines 336-352), the callback of the
\* derived promise (lines 296-300), the finally of the owner (line 358) and the
\* continuations of the callers that wait
fetchSettled(f, key, ok) ==
  [cache    |-> IF ok THEN CachedByFetch(f.cache, key) ELSE f.cache,
   inflight |-> [k \in FetchKeys |->
                   EntryAfterSettle(f.inflight, k, key,
                                    IF ok THEN "fulfilled" ELSE "rejected")],
   queries  |-> QueryAnswered(f.queries, key, ok),
   calls    |-> [i \in FetchCallIds |->
                   IF WaitsFor(f.inflight, f.calls[i], key)
                     THEN Returned(f.calls[i].timePreset, IF ok THEN "rows" ELSE "error")
                     ELSE f.calls[i]]]

\* the older slice of call i arrived (lines 324-331) or its fetch failed
olderSliceSettled(f, i, ok) ==
  [f EXCEPT !.cache = IF ok THEN @ \cup {"ALL"} ELSE @,
            !.queries = QueryAnswered(@, "ALL", ok),
            !.calls[i] = Returned("all", IF ok THEN "rows" ELSE "error")]

(***************************************************************************)
(* sameKey and mergeSortedLists of data-fetch.js                            *)
(***************************************************************************)
MaxLists   == 2
MaxListLen == 2

RESULT_SCALE == 1000000

\* a row as normalizeRow returns it, for one station, unit and method: ts is the parsed
\* SampleDate, Result a number or null, _source the label of the resource
NormalizedRow(date, analyte, result, source) ==
  [SampleDate |-> date, ts |-> date, Analyte |-> analyte, Result |-> result,
   _source |-> source]

\* Math.round((r.Result ?? NaN) * RESULT_SCALE)
ScaledResult(r) == IF r.Result.k = "num" THEN Rat(r.Result.v * RESULT_SCALE, 1) ELSE NaN

\* sameKey(a, b); NaN === NaN is false
sameKey(a, b) ==
  /\ a.SampleDate = b.SampleDate
  /\ a.Analyte = b.Analyte
  /\ IsFinite(ScaledResult(a))
  /\ IsFinite(ScaledResult(b))
  /\ ScaledResult(a) = ScaledResult(b)

\* the inner loop of lines 217-225: the list whose head has the smallest timestamp,
\* the first of them when several are equal, -1 (here 0) when all are exhausted
BestList(lists, idx) ==
  LET open == {i \in 1..Len(lists) : idx[i] <= Len(lists[i])}
  IN IF open = {} THEN 0
     ELSE CHOOSE k \in open :
            \A i \in open :
              \/ lists[k][idx[k]].ts < lists[i][idx[i]].ts
              \/ lists[k][idx[k]].ts = lists[i][idx[i]].ts /\ k <= i

\* line 228: the row is pushed unless it has the key of the row pushed last
PushUnlessSame(out, next) ==
  IF out # <<>> /\ sameKey(out[Len(out)], next) THEN out ELSE Append(out, next)

\* the loop of lines 215-229; last is the row pushed last, which is the last row of out
RECURSIVE MergeLoop(_, _, _)
MergeLoop(lists, idx, out) ==
  IF BestList(lists, idx) = 0 THEN out
  ELSE MergeLoop(lists,
                 [idx EXCEPT ![BestList(lists, idx)] = @ + 1],
                 PushUnlessSame(out, lists[BestList(lists, idx)][idx[BestList(lists, idx)]]))

mergeSortedLists(lists) ==
  IF Len(lists) = 1 THEN lists[1]
  ELSE MergeLoop(lists, [i \in 1..Len(lists) |-> 1], <<>>)

\* the rows the resources may hold
RowContents ==
  { <<1, S_Ecoli, Num(4)>>, <<1, S_Enterococcus, Num(4)>>,
    <<2, S_Ecoli, Num(4)>>, <<1, S_Ecoli, NullResult>> }

\* the answers of one resource: at most MaxListLen rows in ascending order of date
\* (ORDER BY "SampleDate" ASC)
SortedAnswers ==
  {a \in UNION {[1..n -> RowContents] : n \in 0..MaxListLen} :
     \A j \in 1..(Len(a) - 1) : a[j][1] <= a[j + 1][1]}

\* the lists a caller hands to mergeSortedLists: one normalized answer per resource
ListsSpace ==
  {[i \in 1..Len(answers) |->
      [j \in 1..Len(answers[i]) |->
         NormalizedRow(answers[i][j][1], answers[i][j][2], answers[i][j][3], i)]] :
     answers \in UNION {[1..n -> SortedAnswers] : n \in 1..MaxLists}}

(***************************************************************************)
(* loadAllStationsAtStartup of data-fetch.js, for one station code          *)
(***************************************************************************)
MaxDatasets == 2
MaxMetaRows == 2

\* null, and a text value of a metadata column
NullValue == [k |-> "null", v |-> ""]
Text(v)   == [k |-> "text", v |-> v]

\* the labels of DATASETS in priority order (data-config.js), and the date of the
\* samples each of them holds for the station
DatasetLabels == <<"2020-present", "2010-2020", "before 2010">>
DatasetDay(d) == 20043 - 30 * (d - 1)

\* a row of the meta query: SELECT DISTINCT StationCode, StationName, TargetLatitude,
\* TargetLongitude
MetaRow(name, lat, lon) == [StationName |-> name, TargetLatitude |-> lat, TargetLongitude |-> lon]

MetaRows ==
  { MetaRow(Text("Pier"), Text("34"), Text("-118")),
    MetaRow(Text("Pier North"), Text("34"), Text("-118")),
    MetaRow(NullValue, NullValue, NullValue) }

\* a row of the recent-window query of dataset d
RecentRow(d) ==
  [SampleDate |-> DatasetDay(d), Analyte |-> S_Ecoli, Unit |-> "MPN/100 mL",
   Result |-> Num(4), MethodName |-> NullValue]

\* the four answers of dataset d for the station: distinct meta rows, the last sample
\* date (0 stands for none), the total count and the recent rows; a dataset without the
\* station answers with nothing
DatasetAnswers(d) ==
  {[meta |-> <<>>, last |-> 0, count |-> 0, recent |-> <<>>]}
  \cup
  {[meta |-> m, last |-> DatasetDay(d), count |-> c[1], recent |-> c[2]] :
     m \in {a \in UNION {[1..n -> MetaRows] : n \in 1..MaxMetaRows} :
              \A i, j \in 1..Len(a) : i # j => a[i] # a[j]},
     c \in {<<1, <<>>>>, <<1, <<RecentRow(d)>>>>, <<2, <<RecentRow(d)>>>>}}

\* the entry created for a station that the registry does not hold yet (lines 84-94);
\* lastSampleDate 0 and latest <<>> stand for null
NewStationEntry ==
  [StationName |-> NullValue, TargetLatitude |-> NullValue, TargetLongitude |-> NullValue,
   lastSampleDate |-> 0, totalDataPoints |-> 0, datasets |-> <<>>,
   latest |-> <<>>, recentResults |-> <<>>]

\* line 97: the station name is taken when the entry has none and the row has one
FillBlank(have, got) == IF have = NullValue /\ got # NullValue THEN got ELSE have

\* +m.TargetLatitude: the number a coordinate text denotes
CoordinateOf(text) ==
  CASE text.v = "34"   -> Num(34)
    [] text.v = "-118" -> Num(0 - 118)
    [] OTHER           -> NaN

\* lines 98-99: a coordinate is taken, as a number, when the entry has none
FillCoordinate(have, got) ==
  IF have = NullValue /\ got # NullValue THEN CoordinateOf(got) ELSE have

\* line 103
LaterDate(have, ld) == IF have = 0 \/ (ld # 0 /\ ld > have) THEN ld ELSE have

\* line 107
Tagged(datasets, label) ==
  IF \E i \in 1..Len(datasets) : datasets[i] = label THEN datasets ELSE Append(datasets, label)

\* lines 113-119: the object pushed to recentResults
RecentResult(r) ==
  [SampleDate |-> r.SampleDate, Analyte |-> r.Analyte, Unit |-> r.Unit,
   Result |-> r.Result, MethodName |-> r.MethodName]

\* lines 120-122 over the rows of rec
RECURSIVE LatestOf(_, _)
LatestOf(latest, rec) ==
  IF rec = <<>> THEN latest
  ELSE LatestOf(IF latest = <<>> \/ Head(rec).SampleDate > latest[1].SampleDate
                  THEN <<Head(rec)>> ELSE latest,
                Tail(rec))

\* lines 97-124 for one meta row m of a dataset with the given answer and label
MergeMetaRow(entry, m, answer, label) ==
  [StationName     |-> FillBlank(entry.StationName, m.StationName),
   TargetLatitude  |-> FillCoordinate(entry.TargetLatitude, m.TargetLatitude),
   TargetLongitude |-> FillCoordinate(entry.TargetLongitude, m.TargetLongitude),
   lastSampleDate  |-> LaterDate(entry.lastSampleDate, answer.last),
   totalDataPoints |-> entry.totalDataPoints + answer.count,
   datasets        |-> Tagged(entry.datasets, label),
   latest          |-> LatestOf(entry.latest, answer.recent),
   recentResults   |-> entry.recentResults
                         \o [i \in 1..Len(answer.recent) |-> RecentResult(answer.recent[i])]]

\* the loop of lines 81-127 from meta row j on; registry is <<>> or holds the entry of
\* the station
RECURSIVE MergeMetaRows(_, _, _, _)
MergeMetaRows(registry, answer, label, j) ==
  IF j > Len(answer.meta) THEN registry
  ELSE MergeMetaRows(<<MergeMetaRow(IF registry = <<>> THEN NewStationEntry ELSE registry[1],
                                    answer.meta[j], answer, label)>>,
                     answer, label, j + 1)

\* the run before the first dataset is queried (line 33)
StartupIdle == [answers |-> <<>>, registry |-> <<>>]

\* one iteration of the loop over the datasets (lines 38-128) with the answers of the
\* dataset
loadDataset(run, answer) ==
  [answers  |-> Append(run.answers, answer),
   registry |-> MergeMetaRows(run.registry, answer,
                              DatasetLabels[Len(run.answers) + 1], 1)]

(***************************************************************************)
(* The engine as a state machine: a caller assembles the record set of one  *)
(* station, then asks for the current status and for the status history.    *)
(***************************************************************************)
VARIABLES
  records,    \* the station's sample records (recentResults / stationRecord)
  todayIdx,   \* toDayIndex(Date.now()), also the asOf date of computeAllStatuses
  saltFlag,   \* saltFlags.get(code)
  criteria,   \* the value getCriteria() resolves to
  current,    \* the entry computeAllStatuses stores for the station
  series,     \* the value buildStatusSeriesForStation returns (or the error it throws)
  evaluated,  \* the last direct call of evaluateStatusFromMetrics: arguments and result
  criteriaPromise,   \* _criteriaPromise of modules.js
  saltFlagsPromise,  \* _saltFlagsPromise of modules.js
  calls,      \* the invocations of the two async functions that may run interleaved
  loads,      \* how often each configuration file has been requested from FileAttachment
  received,   \* the values each invocation got from its await
  fetcher,    \* _cache, _inflight and the calls of stationRecordFetch (data-fetch.js)
  merging,    \* the last call of mergeSortedLists: arguments and result
  startup,    \* the run of loadAllStationsAtStartup: responses, position, registry
  windowed    \* the last call of windowSum: array, range and result

vars == <<records, todayIdx, saltFlag, criteria, current, series, evaluated,
          criteriaPromise, saltFlagsPromise, calls, loads, received,
          fetcher, merging, startup, windowed>>

\* the state of the data layer and of the direct calls of the utilities
dataVars == <<fetcher, merging, startup, windowed>>

\* the state outside the status engine
otherVars == <<loads, received>>

NotCalled == [state |-> "none"]

\* what the caller of computeAllStatuses observes: the status stored for the station,
\* or the rejection of the promise
CallResult(status) ==
  IF Threw(status) THEN [state |-> "TypeError"] ELSE [state |-> "ok", status |-> status]

\* what the caller of evaluateStatusFromMetrics observes, with the arguments of the call
EvaluatorCall(metrics, typeRules, result) ==
  IF Threw(result)
    THEN [state |-> "TypeError", metrics |-> metrics, typeRules |-> typeRules]
    ELSE [state |-> "ok", metrics |-> metrics, typeRules |-> typeRules, result |-> result]

Todays      == {20042, 20043}
S_EPA_ddPCR == <<"E", "P", "A", " ", "d", "d", "P", "C", "R">>

\* the analyte name as a data source may spell it
S_ecoli_lower == <<"e", ".", " ", "c", "o", "l", "i">>

\* the rows a caller may hand to the engine
RecordSpace ==
  { SampleRecord(DateOn(20000), S_Ecoli, Num(16), NullStr, FALSE),
    SampleRecord(DateOn(20013), S_Ecoli, Num(4), NullStr, FALSE),
    SampleRecord(DateOn(20043), S_Ecoli, Num(4), NullStr, FALSE),
    SampleRecord(DateOn(20043), S_Ecoli, Num(16), NullStr, FALSE),
    SampleRecord(DateOn(20043), S_Ecoli, Num(0), NullStr, FALSE),
    SampleRecord(DateOn(20085), S_Ecoli, Num(4), NullStr, FALSE),
    SampleRecord(DateOn(20043), S_Enterococcus, Num(16), NullStr, FALSE),
    SampleRecord(NullDate, S_Ecoli, Num(16), NullStr, FALSE),
    SampleRecord(BadDate, S_Ecoli, Num(16), NullStr, FALSE),
    SampleRecord(DateOn(20043), S_Ecoli, NullResult, NullStr, FALSE),
    SampleRecord(DateOn(20043), S_Ecoli, UndefResult, NullStr, FALSE),
    SampleRecord(DateOn(20043), S_Ecoli, Num(16), S_EPA_ddPCR, FALSE),
    SampleRecord(DateOn(20043), S_Ecoli, Num(4), NullStr, TRUE),
    SampleRecord(DateOn(20043), S_ecoli_lower, Num(4), NullStr, FALSE) }

\* the metrics a caller may hand to the evaluator
MetricsSpace ==
  [sampleCount6W     : {NaN} \cup {Rat(n, 1) : n \in 0..MaxCount},
   geoMean6W         : {NaN, PosInfinity} \cup {Pow2(e * LogScale, LogScale) : e \in 1..3},
   p90_30d           : {NaN, Rat(4, 1), Rat(41, 10), Rat(16, 1), Rat(161, 10)},
   manualClosureFlag : BOOLEAN]

TypeRulesOf(crit, isSalt) == WaterbodyRules(crit, isSalt)

\* Object.assign(status, {_reasons, _metrics}) in place of the spread: the catalog
\* entry itself receives the properties
statusAfterSpread_assign(status, reasons, metrics) ==
  [name |-> status.name, _reasons |-> reasons, _metrics |-> metrics]

\* withReasons builds its result with { ...status, ... } (line 195): the properties are
\* copied into a new object and the catalog entry `status` keeps its own
statusAfterSpread(status, reasons, metrics) == status

\* the configuration object after the evaluator returned `result`
CatalogAfter(crit, result) ==
  IF Threw(result) THEN crit
  ELSE [crit EXCEPT !.statuses =
          [k \in DOMAIN crit.statuses |->
             IF crit.statuses[k].name = result.name
               THEN statusAfterSpread(crit.statuses[k], result._reasons, result._metrics)
               ELSE crit.statuses[k]]]

\* the configuration object after a history call: the evaluator ran for every day of
\* the sweep, and every status it returned is the status of an emitted entry
CatalogAfterSeries(crit, result) ==
  IF result.state # "ok" \/ result.swept = 0 THEN crit
  ELSE [crit EXCEPT !.statuses =
          [k \in DOMAIN crit.statuses |->
             IF \E i \in 1..result.swept : result.out[i].status_name = crit.statuses[k].name
               THEN LET i == CHOOSE i \in 1..result.swept :
                               /\ result.out[i].status_name = crit.statuses[k].name
                               /\ \A n \in (i + 1)..result.swept :
                                    result.out[n].status_name # crit.statuses[k].name
                    IN statusAfterSpread(crit.statuses[k], result.out[i].reasons,
                                         result.out[i].metrics)
               ELSE crit.statuses[k]]]

\* the record list after the calls read it: filter and map (lines 73, 119, 271-281)
\* return new arrays and leave their receiver as it is
ArrayAfterFilter(arr) == arr

\* the invocations that may be in flight together, each for a station of its own
MaxCalls == 2
CallIds  == 1..MaxCalls

\* the station code of the records an invocation is given
StationOf(i) == <<"A", "B", "C">>[i]

\* the rows of data/site_saltwater_flags.json as the Map getSaltwaterFlags resolves to
SaltFlagsFile(flag) == [c \in {StationOf(i) : i \in CallIds} |-> IF c = "A" THEN flag ELSE ~flag]

\* a memoised promise of modules.js: not created, pending, or resolved to a value
NoPromise       == [state |-> "null"]
PendingPromise  == [state |-> "pending"]
Resolved(value) == [state |-> "resolved", value |-> value]

\* getCriteria / getSaltwaterFlags: the first call creates the promise, later calls
\* return the one that exists
Memoised(promise) == IF promise = NoPromise THEN PendingPromise ELSE promise

\* a getter that asks FileAttachment for the file on every call
FileLoads_everyCall(promise, n) == n + 1

\* the number of FileAttachment requests after a call of the getter: the file is
\* requested only when no promise is memoised
FileLoads(promise, n) == IF promise = NoPromise THEN n + 1 ELSE n

IdleCall == [pc |-> "idle", fn |-> "", recs |-> <<>>, saw |-> "", result |-> NotCalled]

\* the record list of each station
StationRecords(code) ==
  CASE code = "A" -> << SampleRecord(DateOn(20013), S_Ecoli, Num(16), NullStr, FALSE),
                        SampleRecord(DateOn(20043), S_Enterococcus, Num(16), NullStr, FALSE) >>
    [] code = "B" -> << SampleRecord(DateOn(20043), S_Ecoli, Num(4), NullStr, FALSE) >>
    [] OTHER      -> <<>>

\* const out = new Map() kept at module level, so that it carries the entries of the
\* earlier invocations
NewMap_moduleLevel(earlier) == earlier

\* const out = new Map() (line 202): empty, whatever earlier invocations stored
NewMap(earlier) == [c \in {} |-> NotCalled]

\* out.set(code, status)
MapSet(map, code, status) == [c \in DOMAIN map \cup {code} |-> IF c = code THEN status ELSE map[c]]

\* computeAllStatuses for a Map with the single station `code`, after its await;
\* earlier is the Map an earlier invocation returned
ComputeAllStatusesCall(code, recs, asOf, crit, saltFlags, earlier) ==
  LET status == computeAllStatuses(recs, asOf, crit, saltFlags[code])
  IN IF Threw(status) THEN [state |-> "TypeError"]
     ELSE [state |-> "ok", map |-> MapSet(NewMap(earlier), code, status)]

\* buildStatusSeriesForStation after its await: the code is read from the first record,
\* and saltFlags.get(undefined) ?? false is false (lines 259-261)
BuildStatusSeriesCall(code, recs, crit, saltFlags, today) ==
  buildStatusSeriesForStation(recs, crit, IF recs = <<>> THEN FALSE ELSE saltFlags[code], today)

Init ==
  /\ records = <<>>
  /\ todayIdx \in Todays
  /\ saltFlag \in BOOLEAN
  /\ criteria \in CriteriaSpace
  /\ current = NotCalled
  /\ series = NotCalled
  /\ evaluated = NotCalled
  /\ criteriaPromise = NoPromise
  /\ saltFlagsPromise = NoPromise
  /\ calls = [i \in CallIds |-> IdleCall]
  /\ loads = [criteria |-> 0, saltFlags |-> 0]
  /\ received = [i \in CallIds |-> NotCalled]
  /\ fetcher = FetcherIdle
  /\ merging = NotCalled
  /\ startup = StartupIdle
  /\ windowed = NotCalled

\* the caller adds one fetched row to the station's record set
AddRecord ==
  /\ current = NotCalled /\ series = NotCalled
  /\ Len(records) < MaxRecords
  /\ \E r \in RecordSpace : records' = Append(records, r)
  /\ UNCHANGED <<todayIdx, saltFlag, criteria, current, series, evaluated>>
  /\ UNCHANGED <<criteriaPromise, saltFlagsPromise, calls>>
  /\ UNCHANGED otherVars
  /\ UNCHANGED dataVars

\* the map page computes the current status of every station when it loads
CallComputeAllStatuses ==
  /\ current = NotCalled
  /\ current' = CallResult(computeAllStatuses(records, todayIdx, criteria, saltFlag))
  /\ records' = ArrayAfterFilter(records)
  /\ criteria' = CatalogAfter(criteria,
                              computeAllStatuses(records, todayIdx, criteria, saltFlag))
  /\ UNCHANGED <<todayIdx, saltFlag, series, evaluated>>
  /\ UNCHANGED <<criteriaPromise, saltFlagsPromise, calls>>
  /\ UNCHANGED otherVars
  /\ UNCHANGED dataVars

\* the station panel asks for the history once a station of the loaded map is selected
CallBuildStatusSeriesForStation ==
  /\ current # NotCalled
  /\ series = NotCalled
  /\ series' = buildStatusSeriesForStation(records, criteria, saltFlag, todayIdx)
  /\ records' = ArrayAfterFilter(records)
  /\ criteria' = CatalogAfterSeries(criteria, series')
  /\ UNCHANGED <<todayIdx, saltFlag, current, evaluated>>
  /\ UNCHANGED <<criteriaPromise, saltFlagsPromise, calls>>
  /\ UNCHANGED otherVars
  /\ UNCHANGED dataVars

Next ==
  \/ AddRecord
  \/ CallComputeAllStatuses
  \/ CallBuildStatusSeriesForStation

Spec == Init /\ [][Next]_vars

\* an invocation runs to its await: Promise.all([getCriteria(), getSaltwaterFlags()])
StartCall(i) ==
  /\ calls[i].pc = "idle"
  /\ \E fn \in {"computeAllStatuses", "buildStatusSeriesForStation"} :
       calls' = [calls EXCEPT ![i] = [pc |-> "awaiting", fn |-> fn,
                                      recs |-> StationRecords(StationOf(i)),
                                      saw |-> criteriaPromise.state, result |-> NotCalled]]
  /\ criteriaPromise' = Memoised(criteriaPromise)
  /\ saltFlagsPromise' = Memoised(saltFlagsPromise)
  /\ loads' = [criteria  |-> FileLoads(criteriaPromise, loads.criteria),
               saltFlags |-> FileLoads(saltFlagsPromise, loads.saltFlags)]
  /\ UNCHANGED <<records, todayIdx, saltFlag, criteria, current, series, evaluated>>
  /\ UNCHANGED received
  /\ UNCHANGED dataVars

\* data/criteria.json has been read and parsed
ResolveCriteria ==
  /\ criteriaPromise = PendingPromise
  /\ criteriaPromise' = Resolved(criteria)
  /\ UNCHANGED <<records, todayIdx, saltFlag, criteria, current, series, evaluated,
                 saltFlagsPromise, calls>>
  /\ UNCHANGED otherVars
  /\ UNCHANGED dataVars

\* data/site_saltwater_flags.json has been read and turned into the Map
ResolveSaltFlags ==
  /\ saltFlagsPromise = PendingPromise
  /\ saltFlagsPromise' = Resolved(SaltFlagsFile(saltFlag))
  /\ UNCHANGED <<records, todayIdx, saltFlag, criteria, current, series, evaluated,
                 criteriaPromise, calls>>
  /\ UNCHANGED otherVars
  /\ UNCHANGED dataVars

\* the Map returned by the latest finished computeAllStatuses among the other invocations
EarlierMap(i) ==
  IF \E k \in CallIds \ {i} : calls[k].result.state = "ok" /\ calls[k].fn = "computeAllStatuses"
    THEN calls[CHOOSE k \in CallIds \ {i} :
                 calls[k].result.state = "ok" /\ calls[k].fn = "computeAllStatuses"].result.map
    ELSE [c \in {} |-> NotCalled]

\* both promises are resolved and the invocation runs from its await to its return
ResumeCall(i) ==
  /\ calls[i].pc = "awaiting"
  /\ criteriaPromise.state = "resolved"
  /\ saltFlagsPromise.state = "resolved"
  /\ calls' = [calls EXCEPT ![i].pc = "done",
                            ![i].result =
                              IF calls[i].fn = "computeAllStatuses"
                                THEN ComputeAllStatusesCall(StationOf(i), calls[i].recs, todayIdx,
                                       criteriaPromise.value, saltFlagsPromise.value,
                                       EarlierMap(i))
                                ELSE BuildStatusSeriesCall(StationOf(i), calls[i].recs,
                                       criteriaPromise.value, saltFlagsPromise.value, todayIdx)]
  /\ received' = [received EXCEPT ![i] = [state |-> "ok",
                                           criteria  |-> criteriaPromise.value,
                                           saltFlags |-> saltFlagsPromise.value]]
  /\ UNCHANGED <<records, todayIdx, saltFlag, criteria, current, series, evaluated,
                 criteriaPromise, saltFlagsPromise, loads>>
  /\ UNCHANGED dataVars

NextConc ==
  \/ \E i \in CallIds : StartCall(i)
  \/ ResolveCriteria
  \/ ResolveSaltFlags
  \/ \E i \in CallIds : ResumeCall(i)

SpecConc == Init /\ [][NextConc]_vars

\* a direct call of the exported evaluator with arbitrary metrics
CallEvaluateStatusFromMetrics ==
  /\ \E m \in MetricsSpace :
       /\ evaluated' = EvaluatorCall(m, TypeRulesOf(criteria, saltFlag),
                                     evaluateStatusFromMetrics(
                                       m, TypeRulesOf(criteria, saltFlag), criteria))
       /\ criteria' = CatalogAfter(criteria,
                                   evaluateStatusFromMetrics(
                                     m, TypeRulesOf(criteria, saltFlag), criteria))
  /\ UNCHANGED <<records, todayIdx, saltFlag, current, series>>
  /\ UNCHANGED <<criteriaPromise, saltFlagsPromise, calls>>
  /\ UNCHANGED otherVars
  /\ UNCHANGED dataVars

NextEval == CallEvaluateStatusFromMetrics

SpecEval == Init /\ [][NextEval]_vars

(***************************************************************************)
(* The callers of stationRecordFetch and the answers of the network         *)
(***************************************************************************)
engineVars == <<records, todayIdx, saltFlag, criteria, current, series, evaluated,
                criteriaPromise, saltFlagsPromise, calls, loads, received>>

\* a caller asks for the rows of the station, with the "all" or the "window" preset
StartFetch(i) ==
  /\ fetcher.calls[i].pc = "idle"
  /\ \E timePreset \in {"all", "window"} :
       fetcher' = stationRecordFetch(fetcher, i, timePreset)
  /\ UNCHANGED engineVars
  /\ UNCHANGED <<merging, startup, windowed>>

\* the network answers the fetch in flight for a key, or the fetch fails or is aborted
SettleFetch(key) ==
  /\ fetcher.inflight[key].kind = "fetch"
  /\ \E ok \in BOOLEAN : fetcher' = fetchSettled(fetcher, key, ok)
  /\ UNCHANGED engineVars
  /\ UNCHANGED <<merging, startup, windowed>>

\* the network answers the fetch of the older slice of a caller
SettleOlder(i) ==
  /\ fetcher.calls[i].pc = "awaitOlder"
  /\ \E ok \in BOOLEAN : fetcher' = olderSliceSettled(fetcher, i, ok)
  /\ UNCHANGED engineVars
  /\ UNCHANGED <<merging, startup, windowed>>

NextFetch ==
  \/ \E i \in FetchCallIds : StartFetch(i)
  \/ \E key \in FetchKeys : SettleFetch(key)
  \/ \E i \in FetchCallIds : SettleOlder(i)

SpecFetch == Init /\ [][NextFetch]_vars

\* a direct call of mergeSortedLists with the answers of the resources
CallMergeSortedLists ==
  /\ merging = NotCalled
  /\ \E lists \in ListsSpace :
       merging' = [state |-> "ok", lists |-> lists, out |-> mergeSortedLists(lists)]
  /\ UNCHANGED engineVars
  /\ UNCHANGED <<fetcher, startup, windowed>>

NextMerge == CallMergeSortedLists

SpecMerge == Init /\ [][NextMerge]_vars

\* the four queries of the next dataset are answered and its rows are merged
LoadDataset ==
  /\ Len(startup.answers) < MaxDatasets
  /\ \E answer \in DatasetAnswers(Len(startup.answers) + 1) :
       startup' = loadDataset(startup, answer)
  /\ UNCHANGED engineVars
  /\ UNCHANGED <<fetcher, merging, windowed>>

NextStartup == LoadDataset

SpecStartup == Init /\ [][NextStartup]_vars

(***************************************************************************)
(* Direct calls of windowSum on the prefix sums of a per-day array          *)
(***************************************************************************)
MaxArrayLen == 3
MaxOutside  == 2

\* the per-day arrays: counts of 0 to 2 samples on each of at most MaxArrayLen days
DayArrays == UNION {[1..n -> 0..2] : n \in 0..MaxArrayLen}

CallWindowSum ==
  /\ windowed = NotCalled
  /\ \E src \in DayArrays :
       \E i0, i1 \in (0 - MaxOutside)..(Len(src) - 1 + MaxOutside) :
         /\ i0 <= i1
         /\ windowed' = [state |-> "ok", src |-> src, i0 |-> i0, i1 |-> i1,
                         sum |-> windowSum(cumsum(src), i0, i1)]
  /\ UNCHANGED engineVars
  /\ UNCHANGED <<fetcher, merging, startup>>

NextWindow == CallWindowSum

SpecWindow == Init /\ [][NextWindow]_vars

(***************************************************************************)
(* Properties                                                               *)
(***************************************************************************)
Rules   == TypeRulesOf(criteria, saltFlag)
LowName == criteria.statuses.low_risk.name
NedName == criteria.statuses.not_enough_data.name
ElseName ==
  IF Has(Rules, "else_status") THEN criteria.statuses[Rules.else_status].name
  ELSE NoStatus.name

LastEntry == series.out[Len(series.out)]
Key(e) == <<e.status_name, e.reasonsKey>>

Gt(x, t) == IsFinite(x) /\ ~Leq(x, t)
Eq(x, t) == Leq(x, t) /\ ~Lt(x, t)

\* C1: the status of the current-status path for asOf = today equals the status of the
\* last segment of the history series of the same record set.
C1_CurrentEqualsLastSegment ==
  (current.state = "ok" /\ series.state = "ok")
    => current.status.name = LastEntry.status_name

\* C2 (as claimed): no two adjacent entries of a returned series have the same key,
\* the entry appended for today included.
C2_NoAdjacentEqualKeys ==
  series.state = "ok" =>
    \A i \in 1..(Len(series.out) - 1) : Key(series.out[i]) # Key(series.out[i + 1])

\* C2 (amended): two adjacent entries of a returned series have the same key exactly
\* when the second one is the entry appended after the sweep to end the series at today.
C2_OnlyAppendedEntryRepeats ==
  series.state = "ok" =>
    \A i \in 1..(Len(series.out) - 1) :
      (Key(series.out[i]) = Key(series.out[i + 1]))
        <=> (i = series.swept /\ Len(series.out) = series.swept + 1)

C2_Witness ==
  /\ series.state = "ok"
  /\ series.swept >= 2
  /\ Len(series.out) = series.swept + 1

\* C3: every call of buildStatusSeriesForStation returns a non-empty series whose last
\* entry is dated today; it never fails.
C3_SeriesNonEmptyEndsToday ==
  series.state # "none" =>
    /\ series.state = "ok"
    /\ Len(series.out) >= 1
    /\ LastEntry.date = todayIdx

\* C4: the entries of a returned series are strictly increasing in date and none is
\* dated after today.
C4_StrictlyIncreasingDates ==
  series.state = "ok" =>
    /\ \A i \in 1..(Len(series.out) - 1) : series.out[i].date < series.out[i + 1].date
    /\ \A i \in 1..Len(series.out) : series.out[i].date <= todayIdx

C4_Witness ==
  /\ series.state = "ok"
  /\ Len(series.out) >= 2
  /\ \E i \in 1..Len(series.samples) : series.samples[i].day > todayIdx

\* C5: evaluateStatusFromMetrics returns the status and reasons of the first matching
\* branch of the decision table, and every result carries at least one reason.
C5_FirstMatchWins ==
  evaluated.state = "ok" =>
    LET m  == evaluated.metrics
        r  == evaluated.result
        lr == evaluated.typeRules.low_risk
        b1 == m.manualClosureFlag
        b2 == ~IsFinite(m.sampleCount6W) \/ Lt(m.sampleCount6W, lr.min_samples_six_week)
        b3 == ~IsFinite(m.geoMean6W)
        b4 == ~IsFinite(m.p90_30d)
        gmOk  == Leq(m.geoMean6W, lr.six_week_geomean.max)
        p90Ok == Leq(m.p90_30d, lr.p90_30day.max)
        has(x) == \E i \in 1..Len(r._reasons) : r._reasons[i] = x
    IN /\ b1 => (r.name = criteria.statuses.closure.name
                    /\ r._reasons = <<"Manual closure">>)
       /\ (~b1 /\ b2) => (r.name = NedName /\ r._reasons = <<"Insufficient samples">>)
       /\ (~b1 /\ ~b2 /\ b3) =>
            (r.name = NedName /\ r._reasons = <<"Invalid geomean (6w)">>)
       /\ (~b1 /\ ~b2 /\ ~b3 /\ b4) =>
            (r.name = NedName /\ r._reasons = <<"Invalid p90 (30d)">>)
       /\ (~b1 /\ ~b2 /\ ~b3 /\ ~b4 /\ gmOk /\ p90Ok) =>
            (r.name = LowName /\ r._reasons = <<"Pass geomean", "Pass single sample">>)
       /\ (~b1 /\ ~b2 /\ ~b3 /\ ~b4 /\ ~(gmOk /\ p90Ok)) =>
            /\ r.name = ElseName
            /\ has("Fail geomean") <=> ~gmOk
            /\ has("Fail single sample") <=> ~p90Ok
       /\ Len(r._reasons) >= 1

C5_Witness ==
  /\ evaluated.state = "ok"
  /\ evaluated.result.name = ElseName
  /\ evaluated.result._reasons = <<"Fail single sample">>

\* C6 (as claimed): with fewer than the minimum six-week samples the evaluator returns
\* not-enough-data, whatever the other metrics are.
C6_FewerThanMinIsNotEnoughData ==
  (evaluated.state = "ok"
     /\ Lt(evaluated.metrics.sampleCount6W,
           evaluated.typeRules.low_risk.min_samples_six_week))
    => evaluated.result.name = NedName

\* C6 (amended): with fewer than the minimum six-week samples and no manual closure
\* flag the evaluator returns not-enough-data, whatever the geomean and percentile are.
C6_FewerThanMinWithoutClosure ==
  (evaluated.state = "ok"
     /\ ~evaluated.metrics.manualClosureFlag
     /\ Lt(evaluated.metrics.sampleCount6W,
           evaluated.typeRules.low_risk.min_samples_six_week))
    => evaluated.result.name = NedName

C6_Witness ==
  /\ evaluated.state = "ok"
  /\ ~evaluated.metrics.manualClosureFlag
  /\ Lt(evaluated.metrics.sampleCount6W, evaluated.typeRules.low_risk.min_samples_six_week)
  /\ Gt(evaluated.metrics.geoMean6W, evaluated.typeRules.low_risk.six_week_geomean.max)
  /\ evaluated.result.name = NedName

\* more than 10% of the values exceed the threshold t
MoreThanTenPercentExceed(vals, t) ==
  10 * Cardinality({i \in 1..Len(vals) : vals[i] > t}) > Len(vals)

\* the values of the history samples dated within the last `days` days of today
HistoryValues(days) ==
  LET in == SelectSeq(series.samples,
                      LAMBDA x : x.day <= todayIdx /\ x.day > todayIdx - days)
  IN [i \in 1..Len(in) |-> in[i].val]

\* the values the current-status path takes from the last `days` days
CurrentValues(days) ==
  FiniteResults(filterWindow(records, todayIdx, Rules.bacteria, days))

\* C7: given enough samples (the status is Low risk or Use caution), the status is
\* Use caution if and only if the six-week geomean exceeds its threshold or more than
\* 10% of the single samples of the last 30 days exceed the single-sample threshold,
\* on the current-status path and on the history path.
C7_CautionIffExceedance ==
  /\ (current.state = "ok" /\ current.status.name \in {LowName, ElseName}) =>
       ((current.status.name = ElseName)
          <=> \/ Gt(geomean(CurrentValues(42)), Rules.low_risk.six_week_geomean.max)
              \/ MoreThanTenPercentExceed(CurrentValues(30), Rules.low_risk.p90_30day.max))
  /\ (series.state = "ok" /\ LastEntry.status_name \in {LowName, ElseName}) =>
       ((LastEntry.status_name = ElseName)
          <=> \/ Gt(geomean(HistoryValues(W6)), Rules.low_risk.six_week_geomean.max)
              \/ MoreThanTenPercentExceed(HistoryValues(W30), Rules.low_risk.p90_30day.max))

\* C8: metrics equal to their thresholds are compliant: with sufficient samples and no
\* manual closure, geomean = threshold and p90 = threshold give Low risk, and the else
\* status is returned only when a metric is strictly greater than its threshold.
C8_EqualToThresholdIsCompliant ==
  evaluated.state = "ok" =>
    LET m  == evaluated.metrics
        lr == evaluated.typeRules.low_risk
    IN /\ ( /\ ~m.manualClosureFlag
            /\ IsFinite(m.sampleCount6W)
            /\ ~Lt(m.sampleCount6W, lr.min_samples_six_week)
            /\ Eq(m.geoMean6W, lr.six_week_geomean.max)
            /\ Eq(m.p90_30d, lr.p90_30day.max) )
            => evaluated.result.name = LowName
       /\ evaluated.result.name = ElseName
            => \/ Gt(m.geoMean6W, lr.six_week_geomean.max)
               \/ Gt(m.p90_30d, lr.p90_30day.max)

C8_Witness ==
  /\ evaluated.state = "ok"
  /\ Eq(evaluated.metrics.geoMean6W, evaluated.typeRules.low_risk.six_week_geomean.max)
  /\ Eq(evaluated.metrics.p90_30d, evaluated.typeRules.low_risk.p90_30day.max)
  /\ evaluated.result.name = LowName

\* a record whose result is missing or non-numeric, or whose date is absent or unparseable
InvalidRecord(r) == r.Result.k # "num" \/ r.SampleDate.k # "day"

\* C9: records with a missing or non-finite result or an absent or unparseable date
\* contribute to no count, geomean or percentile: the metrics of the current-status
\* path and the samples of the history path are those of the record set without them.
C9_InvalidRecordsContributeNothing ==
  LET validOnly == SelectSeq(records, LAMBDA r : ~InvalidRecord(r))
  IN /\ current.state = "ok" =>
          current.status._metrics
            = computeWindowMetrics(validOnly, todayIdx, Rules.bacteria)
     /\ series.state = "ok" =>
          series.samples = SeriesSamples(validOnly, series.analyte)

\* the method name contains the rapid-test marker in some letter case
RapidTest(r) == includes(toLowerCase(r.MethodName), DDPCR)

\* the numeric results of the records of analyte a, not rapid tests, dated within the
\* window of the current-status path
EligibleValues(a, days) ==
  FiniteResults(SelectSeq(records, LAMBDA r :
    ~RapidTest(r) /\ r.Analyte = a /\ inLast(r, todayIdx, days)))

\* C10: a rapid-test (ddPCR) record and a record of another analyte than the one in use
\* contribute to no count, geomean or percentile on either path.
C10_RapidAndOtherAnalyteExcluded ==
  /\ current.state = "ok" =>
       LET m == current.status._metrics
       IN /\ m.sampleCount6W = Rat(Len(EligibleValues(Rules.bacteria, 42)), 1)
          /\ m.geoMean6W = geomean(EligibleValues(Rules.bacteria, 42))
          /\ m.sampleCount30D = Rat(Len(EligibleValues(Rules.bacteria, 30)), 1)
          /\ m.p90_30d = quantile(EligibleValues(Rules.bacteria, 30), 9)
  /\ series.state = "ok" =>
       LET eligible == {i \in 1..Len(records) :
                          ~RapidTest(records[i]) /\ records[i].Analyte = series.analyte}
       IN /\ Len(series.samples) <= Cardinality(eligible)
          /\ \A k \in 1..Len(series.samples) :
               \E i \in eligible :
                 /\ records[i].SampleDate = DateOn(series.samples[k].day)
                 /\ records[i].Result = Num(series.samples[k].val)

C10_Witness ==
  /\ current.state = "ok"
  /\ series.state = "ok"
  /\ \E i \in 1..Len(records) : RapidTest(records[i])
  /\ Len(series.samples) >= 1
  /\ current.status._metrics.sampleCount6W = Rat(1, 1)

\* the rule set of the station's water-body type lacks its thresholds or its else status
RuleSetIncomplete == ~Has(Rules, "low_risk") \/ ~Has(Rules, "else_status")

\* C11: when the configuration has no complete rule set for the station's water-body
\* type, computeAllStatuses and buildStatusSeriesForStation end in an error the caller
\* sees; neither returns a status.
C11_MissingRuleSetFailsLoudly ==
  RuleSetIncomplete =>
    /\ current.state # "none" => current.state = "TypeError"
    /\ series.state # "none" => series.state = "TypeError"

\* the values of the samples the series call worked on
SampleValues == {series.samples[i].val : i \in 1..Len(series.samples)}

\* C12: when all eligible sample values are identical, 0 included, the bin range is
\* widened, every sample falls in a bin of 0..BINS-1 and the call does not fail in the
\* binning.
C12_DegenerateRangeIsWidened ==
  (series.state # "none" /\ Cardinality(SampleValues) = 1) =>
    /\ ~(series.state = "TypeError" /\ series.at = "H[toBin(val)]")
    /\ \A i \in 1..Len(series.samples) :
         LET bin == toBin(series.samples[i].val,
                          LogRange(series.samples).l0, LogRange(series.samples).l1)
         IN IsFinite(bin) /\ bin.a \in 0..(BINS - 1)

\* record r is a sample of analyte a the history can use: a culture result with a
\* numeric value and a parseable date
EligibleFor(r, a) ==
  r.Analyte = a /\ r.Result.k = "num" /\ r.SampleDate.k = "day" /\ ~RapidTest(r)

\* no record names an analyte, or no record of the selected analyte is eligible
NothingEligible ==
  \/ \A i \in 1..Len(records) : records[i].Analyte = NullStr
  \/ \A i \in 1..Len(records) : ~EligibleFor(records[i], series.analyte)

\* C13: when no analyte can be selected or no eligible sample remains, the series is
\* exactly one entry, dated today, with the not-enough-data status and no reasons.
C13_NoDataGivesSingleEntry ==
  (series.state # "none" /\ NothingEligible) =>
    /\ series.state = "ok"
    /\ Len(series.out) = 1
    /\ series.out[1].date = todayIdx
    /\ series.out[1].status_name = NedName
    /\ series.out[1].reasons = <<>>

C13_Witness ==
  /\ series.state = "ok"
  /\ Len(records) = MaxRecords
  /\ \E i \in 1..Len(records) : RapidTest(records[i])
  /\ \E i \in 1..Len(records) : records[i].Result.k # "num"
  /\ NothingEligible
  /\ Len(series.out) = 1

\* the configured indicator analyte of the station's water-body type
Indicator == Rules.bacteria

\* the number of records naming analyte a
RecordCount(a) == Cardinality({i \in 1..Len(records) : records[i].Analyte = a})

NamedAnalytes == {records[i].Analyte : i \in 1..Len(records)} \ {NullStr}

\* C14: the history is computed from the configured indicator analyte when the record
\* set has records of it, otherwise from an analyte of highest record count; the single
\* not-enough-data entry is what a record set naming no analyte gets; and every eligible
\* record of the chosen analyte is used.
C14_AnalyteChoice ==
  series.state # "none" =>
    /\ Indicator \in NamedAnalytes => series.analyte = Indicator
    /\ (Indicator \notin NamedAnalytes /\ NamedAnalytes # {}) =>
         /\ series.analyte \in NamedAnalytes
         /\ \A a \in NamedAnalytes : RecordCount(a) <= RecordCount(series.analyte)
    /\ NamedAnalytes = {} => (series.state = "ok" /\ series.swept = 0)
    /\ Len(series.samples)
         = Cardinality({i \in 1..Len(records) : EligibleFor(records[i], series.analyte)})

\* the result of invocation i when it runs alone with the same records, configuration
\* and today
Alone(i) ==
  IF calls[i].fn = "computeAllStatuses"
    THEN ComputeAllStatusesCall(StationOf(i), calls[i].recs, todayIdx, criteria,
                                SaltFlagsFile(saltFlag), [c \in {} |-> NotCalled])
    ELSE BuildStatusSeriesCall(StationOf(i), calls[i].recs, criteria,
                               SaltFlagsFile(saltFlag), todayIdx)

CallStep == current' # current \/ series' # series \/ evaluated' # evaluated

SeriesContext ==
  LET sm == series.samples
      lr == LogRange(sm)
  IN SweepContext(sm, DayRange(sm, todayIdx), lr,
                  [i \in 1..Len(sm) |-> toBin(sm[i].val, lr.l0, lr.l1).a],
                  selectTypeRules(criteria, saltFlag), criteria, todayIdx)

\* the key (status name, canonicalized reasons) the evaluator yields for the window
\* metrics of day index j
DayKey(ctx, j) ==
  LET status == evaluateStatusFromMetrics(DayMetrics(ctx, j), ctx.typeRules, ctx.crit)
  IN <<status.name, canonicalizeReasons(status._reasons)>>

\* the latest of the first n entries of the series dated on or before day d
LatestEntry(n, d) ==
  series.out[CHOOSE i \in 1..n :
               /\ series.out[i].date <= d
               /\ \A k \in 1..n : series.out[k].date <= d => k <= i]

\* C17: the sweep emits a segment for day 0, and for a later day exactly when the
\* day's key differs from the key of the last segment emitted before it; a run of days
\* with the same key yields one segment.
C17_SegmentExactlyAtKeyChange ==
  (series.state = "ok" /\ series.swept >= 1) =>
    LET ctx     == SeriesContext
        last    == todayIdx - ctx.startDay
        emitted == {series.out[i].date : i \in 1..series.swept}
    IN /\ ctx.startDay \in emitted
       /\ \A j \in 1..last :
            (ctx.startDay + j \in emitted)
              <=> DayKey(ctx, j) # Key(LatestEntry(series.swept, ctx.startDay + j - 1))
       /\ \A j \in 1..last :
            DayKey(ctx, j) = DayKey(ctx, j - 1) => ctx.startDay + j \notin emitted

\* a swept series with several segments over a range of many days
C17_Witness ==
  /\ series.state = "ok"
  /\ series.swept >= 3
  /\ series.swept < todayIdx - SeriesContext.startDay

\* C18: the series is lossless: for every day from 41 days before the first sample
\* through today, the status name and the canonicalized reasons of the latest entry
\* dated on or before the day are those the evaluator yields for the day's metrics.
C18_SeriesIsLossless ==
  (series.state = "ok" /\ series.swept >= 1) =>
    LET ctx  == SeriesContext
        last == todayIdx - ctx.startDay
    IN \A j \in 0..last :
         Key(LatestEntry(Len(series.out), ctx.startDay + j)) = DayKey(ctx, j)

\* a series in which the reasons change while the status name stays the same
C18_Witness ==
  /\ series.state = "ok"
  /\ \E i \in 1..(series.swept - 1) :
       /\ series.out[i].status_name = series.out[i + 1].status_name
       /\ series.out[i].reasonsKey # series.out[i + 1].reasonsKey

\* the records of analyte a that both paths can use
EligibleRecords(a) == SelectSeq(records, LAMBDA r : EligibleFor(r, a))

\* the 30-day sample count the history derives at day index j (total of line 377)
sampleCount30DAtIndex(ctx, j) == windowSum(ctx.P_count, j - (W30 - 1), j)

\* C19: at every day of the computed range the six-week and the 30-day sample count
\* the history derives from its prefix sums equal the sampleCount6W and sampleCount30D
\* that computeWindowMetrics returns for that day on the same eligible records.
C19_PrefixCountsEqualWindowCounts ==
  (series.state = "ok" /\ series.swept >= 1) =>
    LET ctx  == SeriesContext
        last == todayIdx - ctx.startDay
        recs == EligibleRecords(series.analyte)
    IN \A j \in 0..last :
         LET m == computeWindowMetrics(recs, ctx.startDay + j, series.analyte)
         IN /\ DayMetrics(ctx, j).sampleCount6W = m.sampleCount6W
            /\ Rat(sampleCount30DAtIndex(ctx, j), 1) = m.sampleCount30D

\* the samples of the series that fall in the 30-day window of day index j
WindowSamples(ctx, j) ==
  {i \in 1..Len(series.samples) :
     series.samples[i].day - ctx.startDay \in (j - (W30 - 1))..j}

\* the samples of the window of day index j whose bin is b or lower
SamplesUpToBin(ctx, j, b) ==
  {i \in WindowSamples(ctx, j) : toBin(series.samples[i].val, ctx.l0, ctx.l1).a <= b}

\* the window counts of the bins lo..hi at day index j, summed
RECURSIVE SumBinCounts(_, _, _, _)
SumBinCounts(ctx, j, lo, hi) ==
  IF lo > hi THEN 0
  ELSE IF lo = hi THEN windowSum(ctx.Pbin[lo + 1], j - (W30 - 1), j)
  ELSE LET mid == (lo + hi) \div 2
       IN SumBinCounts(ctx, j, lo, mid) + SumBinCounts(ctx, j, mid + 1, hi)

\* the state the accumulation loop of p90_30d_atIndex ends in at day index j
LoopEnd(ctx, j) ==
  P90Loop(ctx.Pbin, j - (W30 - 1), j, sampleCount30DAtIndex(ctx, j), 0, BINS - 1,
          [acc |-> 0, b |-> 0, done |-> FALSE])

\* C20: at every day index the binned 30-day p90 is NaN exactly when the 30-day
\* window holds no eligible sample; otherwise the per-bin window counts sum to the
\* window total, the accumulation stops at a bin b < BINS, b is the lowest bin whose
\* cumulative count reaches 0.9 x total, and the value is the midpoint of bin b, which
\* lies within [vmin, vmax].
C20_BinnedP90 ==
  (series.state = "ok" /\ series.swept >= 1) =>
    LET ctx == SeriesContext
    IN \A j \in 0..(ctx.N - 1) :
         LET p90   == p90_30d_atIndex(ctx.P_count, ctx.Pbin, ctx.l0, ctx.l1, j)
             total == Cardinality(WindowSamples(ctx, j))
             b     == LoopEnd(ctx, j).b
         IN /\ (p90 = NaN) <=> (total = 0)
            /\ total > 0 =>
                 /\ SumBinCounts(ctx, j, 0, BINS - 1) = total
                 /\ LoopEnd(ctx, j).done
                 /\ b < BINS
                 /\ 10 * Cardinality(SamplesUpToBin(ctx, j, b)) >= 9 * total
                 /\ \A k \in 0..(b - 1) :
                      10 * Cardinality(SamplesUpToBin(ctx, j, k)) < 9 * total
                 /\ p90 = Pow2(ctx.l0 * 2 * BINS + (2 * b + 1) * (ctx.l1 - ctx.l0),
                               2 * BINS * LogScale)
                 /\ ctx.l0 * 2 * BINS <= p90.a
                 /\ p90.a <= ctx.l1 * 2 * BINS

\* a series with a 30-day window that holds two samples in different bins
C20_Witness ==
  /\ series.state = "ok"
  /\ series.swept >= 1
  /\ \E j \in 0..(SeriesContext.N - 1) :
       /\ Cardinality(WindowSamples(SeriesContext, j)) = 2
       /\ Cardinality(SamplesUpToBin(SeriesContext, j, 0)) = 1

\* the record set before its last record was added, and that record
EarlierRecords == SubSeq(records, 1, Len(records) - 1)
AddedRecord    == records[Len(records)]

\* the entry of a returned series s that covers day d: the latest one dated on or
\* before d
EntryOn(s, d) ==
  s.out[CHOOSE i \in 1..Len(s.out) :
          /\ s.out[i].date <= d
          /\ \A k \in 1..Len(s.out) : s.out[k].date <= d => k <= i]

\* the last record is an eligible sample of the chosen analyte dated after every
\* eligible sample the station had before
LaterSampleAdded ==
  /\ Len(records) >= 2
  /\ EligibleFor(AddedRecord, series.analyte)
  /\ \A i \in 1..(Len(records) - 1) :
       EligibleFor(records[i], series.analyte)
         => records[i].SampleDate.v < AddedRecord.SampleDate.v

\* C21: the history is stable under later data: when an eligible sample dated after
\* day d is added to the record set, the status and the reasons the series assigns to
\* every day on or before d stay what they were before the addition.
C21_StableUnderLaterData ==
  (series.state = "ok" /\ series.swept >= 1 /\ LaterSampleAdded) =>
    LET before == buildStatusSeriesForStation(EarlierRecords, criteria, saltFlag, todayIdx)
    IN (before.state = "ok" /\ before.swept >= 1 /\ before.analyte = series.analyte) =>
         \A d \in before.out[1].date..Min(AddedRecord.SampleDate.v - 1, todayIdx) :
           Key(EntryOn(before, d)) = Key(EntryOn(series, d))

\* the day of the most recent sample the history used
LastSampleDay ==
  CHOOSE d \in {series.samples[i].day : i \in 1..Len(series.samples)} :
    \A i \in 1..Len(series.samples) : series.samples[i].day <= d

\* the rule set asks for at least one sample in six weeks
MinimumAtLeastOne ==
  /\ Has(Rules, "low_risk")
  /\ Has(Rules.low_risk, "min_samples_six_week")
  /\ Rules.low_risk.min_samples_six_week >= 1

\* the most recent eligible sample is dated 42 or more days before today
StaleStation ==
  /\ series.state = "ok"
  /\ series.samples # <<>>
  /\ LastSampleDay + W6 <= todayIdx
  /\ MinimumAtLeastOne

InsufficientKey == <<NedName, <<"Insufficient samples">>>>

\* C22: when the most recent eligible sample is dated 42 or more days before today and
\* the minimum sample count is at least 1, the last entry of the series is
\* not-enough-data with reason 'Insufficient samples', and that status covers every day
\* from the last sample day + 42 through today.
C22_StaleStationIsInsufficient ==
  StaleStation =>
    /\ Key(LastEntry) = InsufficientKey
    /\ \A d \in (LastSampleDay + W6)..todayIdx : Key(EntryOn(series, d)) = InsufficientKey

\* a station whose last sample is exactly 42 days old, after a period with a status
C22_Witness ==
  /\ StaleStation
  /\ LastSampleDay + W6 = todayIdx
  /\ series.swept >= 3

\* the record list with the records at positions i and k exchanged
Exchanged(recs, i, k) ==
  [n \in 1..Len(recs) |-> IF n = i THEN recs[k] ELSE IF n = k THEN recs[i] ELSE recs[n]]

\* what a caller compares of a history: the dates, status names and reasons of a
\* returned series, or the error
SeriesView(s) ==
  IF s.state = "ok"
    THEN [state |-> "ok",
          entries |-> [n \in 1..Len(s.out) |->
                         <<s.out[n].date, s.out[n].status_name, s.out[n].reasonsKey>>]]
    ELSE [state |-> s.state, entries |-> <<>>]

\* C23: the history does not depend on the order of the input records: the record set
\* in any other order yields the same dates, status names and reasons.
C23_OrderIndependent ==
  series # NotCalled =>
    \A i, k \in 1..Len(records) :
      SeriesView(buildStatusSeriesForStation(Exchanged(records, i, k), criteria,
                                             saltFlag, todayIdx))
        = SeriesView(series)

\* the record set without its rapid-test records
WithoutRapid == SelectSeq(records, LAMBDA r : ~RapidTest(r))

\* C24: rapid-test records have no influence on the history: the record set without
\* its ddPCR records yields the same analyte, dates, status names and reasons.
C24_RapidTestsHaveNoInfluence ==
  series # NotCalled =>
    LET without == buildStatusSeriesForStation(WithoutRapid, criteria, saltFlag, todayIdx)
    IN /\ without.analyte = series.analyte
       /\ SeriesView(without) = SeriesView(series)

\* C25: across every interleaving of the callers of getCriteria and of
\* getSaltwaterFlags each configuration file is loaded at most once, and every caller
\* receives the same value.
C25_ConfigurationLoadedOnce ==
  /\ loads.criteria <= 1
  /\ loads.saltFlags <= 1
  /\ \A i, k \in CallIds :
       (received[i] # NotCalled /\ received[k] # NotCalled) => received[i] = received[k]

\* two invocations have got their configuration, the second started when the files
\* were already loaded
C25_Witness ==
  /\ \A i \in CallIds : received[i] # NotCalled
  /\ \E i \in CallIds : calls[i].saw = "resolved"
  /\ loads = [criteria |-> 1, saltFlags |-> 1]

\* C26: for every interleaving of the calls of stationRecordFetch with the same
\* station, scope, analytes and time preset the network is queried at most once for the
\* cache key: a later caller gets the cached rows or the promise in flight.  A further
\* query is counted against the claim only when no earlier query of the key failed.
C26_NetworkQueriedOncePerKey ==
  \A key \in FetchKeys :
    /\ fetcher.queries[key].pending <= 1
    /\ fetcher.queries[key].started <= 1 + fetcher.queries[key].failed

\* C27: every entry that stationRecordFetch places in the in-flight map is removed
\* once its promise settles, so that after a failed fetch a later request for the key
\* starts a new fetch instead of receiving the old rejected promise.
C27_SettledEntriesAreRemoved ==
  \A key \in FetchKeys : fetcher.inflight[key] # NoEntry => fetcher.inflight[key].state = "pending"

\* the rows of list i that have the key of row r
SameKeyIn(list, r) == {j \in 1..Len(list) : sameKey(list[j], r)}

\* row r occurs in several resources, once in each of them
InSeveralResources(lists, r) ==
  /\ Cardinality({i \in 1..Len(lists) : SameKeyIn(lists[i], r) # {}}) >= 2
  /\ \A i \in 1..Len(lists) : Cardinality(SameKeyIn(lists[i], r)) <= 1

\* C28: for lists that are each sorted ascending by timestamp, mergeSortedLists
\* returns a list sorted ascending by timestamp in which every record that occurs in
\* several resources appears exactly once, also when records share a timestamp.
C28_MergedSortedWithoutDuplicates ==
  merging # NotCalled =>
    /\ \A n \in 1..(Len(merging.out) - 1) : merging.out[n].ts <= merging.out[n + 1].ts
    /\ \A i \in 1..Len(merging.lists) : \A j \in 1..Len(merging.lists[i]) :
         InSeveralResources(merging.lists, merging.lists[i][j])
           => Cardinality(SameKeyIn(merging.out, merging.lists[i][j])) = 1

\* the entry of the station, the new entry when the registry has none
StationEntry == IF startup.registry = <<>> THEN NewStationEntry ELSE startup.registry[1]

\* the datasets queried so far that know the station
KnownIn == {d \in 1..Len(startup.answers) : startup.answers[d].meta # <<>>}

RECURSIVE SumCounts(_)
SumCounts(ds) ==
  IF ds = {} THEN 0
  ELSE LET d == CHOOSE x \in ds : TRUE
       IN startup.answers[d].count + SumCounts(ds \ {d})

\* the station names a dataset gives
NamesOf(d) ==
  {startup.answers[d].meta[j].StationName : j \in 1..Len(startup.answers[d].meta)} \ {NullValue}

\* C29: for every dataset each recent row is added to recentResults exactly once and
\* the row count is added to totalDataPoints exactly once, however many metadata rows
\* the dataset returns for the station; the metadata of a higher-priority dataset is
\* never overwritten by a lower-priority one.
C29_DatasetMergedOnce ==
  /\ \A d \in KnownIn : \A i \in 1..Len(startup.answers[d].recent) :
       Cardinality({n \in 1..Len(StationEntry.recentResults) :
                      StationEntry.recentResults[n]
                        = RecentResult(startup.answers[d].recent[i])}) = 1
  /\ StationEntry.totalDataPoints = SumCounts(KnownIn)
  /\ \A d \in KnownIn :
       (NamesOf(d) # {} /\ \A e \in 1..(d - 1) : NamesOf(e) = {})
         => StationEntry.StationName \in NamesOf(d)

\* the sum of src[k] over the k of [i0, i1] that lie in [0, N - 1] (src[k] of the
\* code is src[k + 1] here)
SumInRange(src, i0, i1) == SumSeq(SubSeq(src, Max(i0, 0) + 1, Min(i1, Len(src) - 1) + 1))

====
